---------------------------- MODULE Spec2Model ----------------------------
(***************************************************************************)
(* The HTTP transport of rust-web3 (src/transports/http.rs): Http::new     *)
(* with its URL and basic auth header, the HTTP request of send_request,   *)
(* the shared                                                              *)
(* request id counter, the single/batch framing of send and send_batch,    *)
(* the Response future (Waiting / Reading) and the two extractors          *)
(* single_response / batch_response.                                       *)
(*                                                                         *)
(* Bytes are modelled at the granularity of JSON tokens: "[" and "]" are   *)
(* the array brackets, every other token is one complete JSON-RPC Output   *)
(* object (with the separator that precedes it inside an array).           *)
(***************************************************************************)
EXTENDS Integers, Sequences, FiniteSets, TLC

(***************************************************************************)
(* Bounds of the model.                                                    *)
(***************************************************************************)
\* width of the id counter (usize) in bits
WordBits == 2
\* total number of body tokens the servers deliver
MaxBody == 4
\* largest chunk, in tokens, the body stream yields at once
MaxChunk == 2
\* largest batch handed to send_batch
MaxBatch == 2
\* polls made after a Response has already returned a result
MaxLatePolls == 1

Modulus == 2 ^ WordBits
MaxPrepares == Modulus + 2

\* the transport and its clones (#[derive(Clone)]: they share the Arc counter)
Clones == {"http", "clone"}
\* the Response values the callers hold
Slots == {"r1", "r2"}
Methods == {"eth_getAccounts"}
\* request ids the callers hand to send / send_batch
SendIds == {1, 2}
\* HTTP status codes the server answers with
Statuses == {199, 200, 300, 500}

(***************************************************************************)
(* rpc values (crate::rpc, jsonrpc_core).                                  *)
(***************************************************************************)
Success(id, result) == [kind |-> "Success", id |-> id, result |-> result]
Failure(id, code, message) ==
    [kind |-> "Failure", id |-> id, error |-> [code |-> code, message |-> message]]

\* the Output objects a body can hold, by token
ObjTokens == {"S1", "F2"}
Tokens == {"[", "]"} \cup ObjTokens

\* serde: the Output a well-formed object token deserializes to
Decode(tok) ==
    CASE tok = "S1" -> Success(1, "x")
      [] tok = "F2" -> Failure(2, -32000, "boom")

Outputs == {Decode(tok) : tok \in ObjTokens}

\* the wire form of an Output (what the server writes)
Encode(o) == CHOOSE tok \in ObjTokens : Decode(tok) = o

\* error::Result values
Ok(v) == [kind |-> "Ok", value |-> v]
OkList(l) == [kind |-> "Ok", list |-> l]
ErrRpc(e) == [kind |-> "Rpc", error |-> e]
ErrTransport(msg) == [kind |-> "Transport", msg |-> msg]
ErrTransportStatus(msg, status) == [kind |-> "Transport", msg |-> msg, status |-> status]
ErrInvalidResponse(msg) == [kind |-> "InvalidResponse", msg |-> msg]

\* helpers::build_request
build_request(id, method, params) ==
    [jsonrpc |-> "2.0", id |-> id, method |-> method, params |-> params]

\* helpers::to_result_from_output
to_result_from_output(output) ==
    IF output.kind = "Success" THEN Ok(output.result) ELSE ErrRpc(output.error)

(***************************************************************************)
(* serde_json::from_slice::<rpc::Response>: an untagged enum, Single(Output)*)
(* or Batch(Vec<Output>).                                                  *)
(***************************************************************************)
ParseOk(doc) == [ok |-> TRUE, doc |-> doc]
ParseErr(diag) == [ok |-> FALSE, diag |-> diag]
RpcSingle(o) == [shape |-> "Single", output |-> o]
RpcBatch(os) == [shape |-> "Batch", outputs |-> os]

RECURSIVE ParseElems(_, _, _)
ParseElems(b, i, acc) ==
    IF i > Len(b) THEN ParseErr("EOF while parsing a list")
    ELSE IF b[i] = "]"
         THEN IF i = Len(b) THEN ParseOk(RpcBatch(acc))
              ELSE ParseErr("trailing characters")
    ELSE IF b[i] \in ObjTokens
         THEN ParseElems(b, i + 1, Append(acc, Decode(b[i])))
    ELSE ParseErr("data did not match any variant of untagged enum Response")

from_slice(b) ==
    IF b = << >> THEN ParseErr("EOF while parsing a value")
    ELSE IF b[1] \in ObjTokens
         THEN IF Len(b) = 1 THEN ParseOk(RpcSingle(Decode(b[1])))
              ELSE ParseErr("trailing characters")
    ELSE IF b[1] = "[" THEN ParseElems(b, 2, << >>)
    ELSE ParseErr("expected value")

\* outputs.into_iter().map(helpers::to_result_from_output).collect()
MapResults(outputs) == [i \in 1..Len(outputs) |-> to_result_from_output(outputs[i])]


(***************************************************************************)
(* The extractors.                                                         *)
(***************************************************************************)
\* a single_response that takes the first Output of a batch
single_response_first_of_batch(response) ==
    LET parsed == from_slice(response) IN
    IF ~parsed.ok THEN ErrInvalidResponse(parsed.diag)
    ELSE IF parsed.doc.shape = "Single"
         THEN to_result_from_output(parsed.doc.output)
    ELSE IF parsed.doc.outputs # << >>
         THEN to_result_from_output(parsed.doc.outputs[1])
    ELSE ErrInvalidResponse("Expected single, got batch.")

\* fn single_response(response) -> error::Result<rpc::Value>
single_response(response) ==
    LET parsed == from_slice(response) IN
    IF ~parsed.ok THEN ErrInvalidResponse(parsed.diag)
    ELSE IF parsed.doc.shape = "Single"
         THEN to_result_from_output(parsed.doc.output)
    ELSE ErrInvalidResponse("Expected single, got batch.")

\* a batch_response that answers an unparsable body with the empty list
batch_response_or_default(response) ==
    LET parsed == from_slice(response) IN
    IF ~parsed.ok THEN OkList(<< >>)
    ELSE IF parsed.doc.shape = "Batch"
         THEN OkList(MapResults(parsed.doc.outputs))
    ELSE ErrInvalidResponse("Expected batch, got single.")

\* a batch_response that orders the results by the id of their Output
batch_response_by_id(response) ==
    LET parsed == from_slice(response)
        HasId(i) == LET Is(o) == o.id = i IN SelectSeq(parsed.doc.outputs, Is)
    IN
    IF ~parsed.ok THEN ErrInvalidResponse(parsed.diag)
    ELSE IF parsed.doc.shape = "Batch"
         THEN OkList(MapResults(HasId(0) \o HasId(1) \o HasId(2) \o HasId(3)))
    ELSE ErrInvalidResponse("Expected batch, got single.")

\* a batch_response that loses the last Output
batch_response_drop_last(response) ==
    LET parsed == from_slice(response) IN
    IF ~parsed.ok THEN ErrInvalidResponse(parsed.diag)
    ELSE IF parsed.doc.shape = "Batch"
         THEN OkList(MapResults(SubSeq(parsed.doc.outputs, 1, Len(parsed.doc.outputs) - 1)))
    ELSE ErrInvalidResponse("Expected batch, got single.")

\* fn batch_response(response) -> error::Result<Vec<error::Result<rpc::Value>>>
batch_response(response) ==
    LET parsed == from_slice(response) IN
    IF ~parsed.ok THEN ErrInvalidResponse(parsed.diag)
    ELSE IF parsed.doc.shape = "Batch"
         THEN OkList(MapResults(parsed.doc.outputs))
    ELSE ErrInvalidResponse("Expected batch, got single.")

\* (self.extract)(response): the function pointer stored in the Response
Extract(extract, response) ==
    IF extract = "single_response" THEN single_response(response)
    ELSE batch_response(response)

(***************************************************************************)
(* The id counter.                                                         *)
(***************************************************************************)
\* AtomicUsize::new(1)
NewCounter == 1

\* a fetch_add whose increment is lost (a load followed by a store of the same value)
fetch_add_lost(c) == [prev |-> c, next |-> c]

\* an add_fetch: the new value is returned instead of the previous one
fetch_add_new(c) == [prev |-> (c + 1) % Modulus, next |-> (c + 1) % Modulus]

\* a counter that starts over from its initial value instead of wrapping
fetch_add_reset(c) == [prev |-> c, next |-> IF c + 1 = Modulus THEN 1 ELSE c + 1]

\* AtomicUsize::fetch_add(1, AcqRel): one atomic read-modify-write that
\* returns the previous value and wraps on overflow
fetch_add(c) == [prev |-> c, next |-> (c + 1) % Modulus]

(***************************************************************************)
(* Http::new: the URL, the basic auth header.  A URL string is a sequence  *)
(* of tokens: a scheme, then optionally user info (a user name, ":", a     *)
(* password, "@"), then a host with its port, then path segments.  User    *)
(* names and passwords are byte strings (sequences of byte values), and a  *)
(* base64 text is the sequence of its 6-bit digits, 64 standing for "=".   *)
(***************************************************************************)
None == [some |-> FALSE]
Some(v) == [some |-> TRUE, value |-> v]
\* Option::unwrap_or_default for a byte string
unwrap_or_default(o) == IF o.some THEN o.value ELSE << >>

Schemes == {"http://", "https://"}
Hosts == {"127.0.0.1:8545", "127.0.0.1:3001"}
\* the bytes of the user names and passwords that occur in URLs
Ascii(t) ==
    CASE t = "user" -> <<117, 115, 101, 114>>
      [] t = "username" -> <<117, 115, 101, 114, 110, 97, 109, 101>>
      [] t = "password" -> <<112, 97, 115, 115, 119, 111, 114, 100>>
Text(ts) == IF ts = << >> THEN << >> ELSE Ascii(ts[1])
\* position of the first token t in s, 0 if there is none
IndexOf(s, t) ==
    IF \E i \in 1..Len(s) : s[i] = t
    THEN CHOOSE i \in 1..Len(s) : s[i] = t /\ \A j \in 1..(i - 1) : s[j] # t
    ELSE 0
\* a path segment as the url crate keeps it: a space is percent-encoded
PercentEncode(seg) == IF seg = "/a b" THEN "/a%20b" ELSE seg

\* url::Url::parse: a scheme and a host are required; Url::username is ""
\* and Url::password is None where the URL has none (or an empty one)
Url_parse(input) ==
    IF input = << >> \/ input[1] \notin Schemes
    THEN [ok |-> FALSE, error |-> "RelativeUrlWithoutBase"]
    ELSE LET rest == Tail(input)
             at == IndexOf(rest, "@")
             userinfo == SubSeq(rest, 1, at - 1)
             hostpath == SubSeq(rest, at + 1, Len(rest))
             colon == IndexOf(userinfo, ":")
             user == IF colon = 0 THEN userinfo ELSE SubSeq(userinfo, 1, colon - 1)
             pass == IF colon = 0 THEN << >>
                     ELSE SubSeq(userinfo, colon + 1, Len(userinfo))
         IN IF hostpath = << >> \/ hostpath[1] \notin Hosts
            THEN [ok |-> FALSE, error |-> "EmptyHost"]
            ELSE [ok |-> TRUE,
                  url |-> [scheme |-> input[1],
                           username |-> Text(user),
                           password |-> IF pass = << >> THEN None ELSE Some(Text(pass)),
                           host |-> hostpath[1],
                           path |-> [i \in 1..(Len(hostpath) - 1) |->
                                        PercentEncode(hostpath[i + 1])]]]

\* <hyper::Uri as FromStr>::from_str: no character is escaped, a space is an error
Uri_from_str(input) ==
    IF input = << >> THEN [ok |-> FALSE, error |-> "InvalidUri(Empty)"]
    ELSE IF \E i \in 1..Len(input) : input[i] = "/a b"
    THEN [ok |-> FALSE, error |-> "InvalidUri(InvalidUriChar)"]
    ELSE LET scheme == IF input[1] \in Schemes THEN <<input[1]>> ELSE << >>
             rest == SubSeq(input, Len(scheme) + 1, Len(input))
             host == IF \E i \in 1..Len(rest) : rest[i] \in Hosts
                     THEN CHOOSE i \in 1..Len(rest) : rest[i] \in Hosts
                     ELSE 0
         IN IF host = 0 THEN [ok |-> FALSE, error |-> "InvalidUri(InvalidFormat)"]
            ELSE [ok |-> TRUE,
                  uri |-> [scheme |-> scheme,
                           authority |-> SubSeq(rest, 1, host),
                           path |-> SubSeq(rest, host + 1, Len(rest))]]

\* base64::encode: three bytes give four digits, a last group of one or two
\* bytes is padded with "="
RECURSIVE base64_encode(_)
base64_encode(b) ==
    IF Len(b) = 0 THEN << >>
    ELSE IF Len(b) = 1
    THEN <<b[1] \div 4, (b[1] % 4) * 16, 64, 64>>
    ELSE IF Len(b) = 2
    THEN LET n == b[1] * 256 + b[2]
         IN <<n \div 1024, (n \div 16) % 64, (n % 16) * 4, 64>>
    ELSE LET n == b[1] * 65536 + b[2] * 256 + b[3]
         IN <<n \div 262144, (n \div 4096) % 64, (n \div 64) % 64, n % 64>>
               \o base64_encode(SubSeq(b, 4, Len(b)))

\* HeaderValue::from_str(&format!("Basic {}", ..)): every character must be
\* a visible one, which base64 digits are
HeaderValue_from_str(credentials) ==
    IF \A i \in 1..Len(credentials) : credentials[i] \in 0..64
    THEN [ok |-> TRUE, value |-> [scheme |-> "Basic ", credentials |-> credentials]]
    ELSE [ok |-> FALSE, error |-> "InvalidHeaderValue"]

\* an auth header that is left out whenever the user name is empty
basic_auth_by_user(url) ==
    LET auth == url.username \o <<58>> \o unwrap_or_default(url.password)
    IN IF url.username = << >>
       THEN [ok |-> TRUE, value |-> None]
       ELSE LET h == HeaderValue_from_str(base64_encode(auth))
            IN IF h.ok THEN [ok |-> TRUE, value |-> Some(h.value)] ELSE h

\* let auth = format!("{}:{}", user, url.password().unwrap_or_default());
\* if &auth == ":" { None } else { Some(HeaderValue::from_str(..)?) }
basic_auth(url) ==
    LET user == url.username
        auth == user \o <<58>> \o unwrap_or_default(url.password)
    IN IF auth = <<58>>
       THEN [ok |-> TRUE, value |-> None]
       ELSE LET h == HeaderValue_from_str(base64_encode(auth))
            IN IF h.ok THEN [ok |-> TRUE, value |-> Some(h.value)] ELSE h

\* an Http::new that falls back to the parsed Url where the Uri is refused
Http_new_lenient(url) ==
    LET parsed == Url_parse(url)
        uri == Uri_from_str(url)
    IN IF ~parsed.ok THEN [ok |-> FALSE, error |-> ErrTransport(parsed.error)]
       ELSE [ok |-> TRUE,
             url |-> IF uri.ok THEN uri.uri
                     ELSE [scheme |-> <<parsed.url.scheme>>,
                           authority |-> <<parsed.url.host>>,
                           path |-> parsed.url.path],
             basic_auth |-> basic_auth(parsed.url).value]

\* pub fn new(url: &str) -> error::Result<Self>: each `?` returns the error,
\* converted to Error::Transport by the From impls
Http_new(url) ==
    LET parsed == Url_parse(url) IN
    IF ~parsed.ok THEN [ok |-> FALSE, error |-> ErrTransport(parsed.error)]
    ELSE LET auth == basic_auth(parsed.url) IN
         IF ~auth.ok THEN [ok |-> FALSE, error |-> ErrTransport(auth.error)]
         ELSE LET uri == Uri_from_str(url) IN
              IF ~uri.ok THEN [ok |-> FALSE, error |-> ErrTransport(uri.error)]
              ELSE [ok |-> TRUE, url |-> uri.uri, basic_auth |-> auth.value]

(***************************************************************************)
(* send_request: the HTTP request handed to the client.                    *)
(***************************************************************************)
\* const MAX_SINGLE_CHUNK: usize = 256
MAX_SINGLE_CHUNK == 256

\* one rpc::Call as serde_json writes it (calls carry no parameters here)
CallJson(call) ==
    "{\"jsonrpc\":\"" \o call.jsonrpc \o "\",\"method\":\"" \o call.method
        \o "\",\"params\":[],\"id\":" \o ToString(call.id) \o "}"
RECURSIVE JoinCalls(_)
JoinCalls(calls) ==
    IF calls = << >> THEN ""
    ELSE IF Len(calls) = 1 THEN CallJson(calls[1])
    ELSE CallJson(calls[1]) \o "," \o JoinCalls(Tail(calls))
\* helpers::to_string(&request): a Single is the call, a Batch is an array
to_string(request) ==
    IF request.kind = "Single" THEN CallJson(request.calls[1])
    ELSE "[" \o JoinCalls(request.calls) \o "]"

\* a length test that includes the boundary
content_length_inclusive(len) == IF len <= MAX_SINGLE_CHUNK THEN Some(len) ELSE None

\* if len < MAX_SINGLE_CHUNK { req.header(CONTENT_LENGTH, len) }
content_length(len) == IF len < MAX_SINGLE_CHUNK THEN Some(len) ELSE None

\* a request builder that never sets Authorization
hyper_request_no_auth(self, request) ==
    LET body == to_string(request)
        len == Len(body)
    IN [method |-> "POST",
        uri |-> self.url,
        headers |-> [content_type |-> Some("application/json"),
                     user_agent |-> Some("web3.rs"),
                     content_length |-> content_length(len),
                     authorization |-> None],
        body |-> body]

\* hyper::Request::post(self.url.clone()) with its headers and body
hyper_request(self, request) ==
    LET body == to_string(request)
        len == Len(body)
    IN [method |-> "POST",
        uri |-> self.url,
        headers |-> [content_type |-> Some("application/json"),
                     user_agent |-> Some("web3.rs"),
                     content_length |-> content_length(len),
                     authorization |-> self.basic_auth],
        body |-> body]

(***************************************************************************)
(* State.                                                                  *)
(***************************************************************************)
VARIABLES
    http,       \* the outcome of Http::new (url, basic_auth or the error) and the URL string given
    counter,    \* Http.id: the Arc<AtomicUsize> every clone points to
    issued,     \* history: the (clone, id) of every prepare, in the order the increments took effect
    wrapped,    \* history: the counter has overflowed
    resp,       \* slot -> the Response the caller holds there (id, extract, state), or NoResponse
    sent,       \* slot -> the rpc::Request handed to the HTTP client for that Response
    wire,       \* slot -> the HTTP requests handed to the client for that Response, in order
    net,        \* slot -> the HTTP side: the ResponseFuture and the body stream
    ctl,        \* slot -> where the owner is with the future: idle, running (inside poll), ready, panicked
    hist        \* slot -> history of the Response: status seen, bytes delivered, results returned

vars == <<http, counter, issued, wrapped, resp, sent, wire, net, ctl, hist>>
idVars == <<http, counter, issued, wrapped>>
respVars == <<resp, sent, wire, net, ctl, hist>>

NoResponse == [none |-> TRUE]
NoRequest == [none |-> TRUE]

\* Response::new(id, response, extract)
NewResponse(id, extract) ==
    [id |-> id, extract |-> extract, state |-> "Waiting", content |-> << >>]

NewNet == [call |-> "inflight", body |-> "none"]
\* (chunks counts the chunks delivered, up to 2; polledIn is the state the
\* Response was in when the running or the last poll was entered)
NewHist ==
    [status |-> 0, delivered |-> << >>, chunks |-> 0, results |-> << >>,
     extracts |-> 0, latePolls |-> 0, suspended |-> FALSE, entered |-> FALSE,
     polledIn |-> "none"]

\* the URL of the test server
TestUrl == <<"http://", "127.0.0.1:3001">>
NotConstructed == [made |-> FALSE]
Constructed(url) == [made |-> TRUE, input |-> url, result |-> Http_new(url)]
\* a transport exists
Usable == http.made /\ http.result.ok

\* after Http::new(TestUrl): the counter starts at 1; no request has been sent
Init ==
    /\ http = Constructed(TestUrl)
    /\ counter = NewCounter
    /\ issued = << >>
    /\ wrapped = FALSE
    /\ resp = [r \in Slots |-> NoResponse]
    /\ sent = [r \in Slots |-> NoRequest]
    /\ wire = [r \in Slots |-> << >>]
    /\ net = [r \in Slots |-> NewNet]
    /\ ctl = [r \in Slots |-> "none"]
    /\ hist = [r \in Slots |-> NewHist]

\* before Http::new: there is no transport, hence no counter
InitNew ==
    /\ http = NotConstructed
    /\ counter = 0
    /\ issued = << >>
    /\ wrapped = FALSE
    /\ resp = [r \in Slots |-> NoResponse]
    /\ sent = [r \in Slots |-> NoRequest]
    /\ wire = [r \in Slots |-> << >>]
    /\ net = [r \in Slots |-> NewNet]
    /\ ctl = [r \in Slots |-> "none"]
    /\ hist = [r \in Slots |-> NewHist]

\* Http::new(url): on Ok the transport exists with id: Arc::new(AtomicUsize::new(1))
new(url) ==
    /\ ~http.made
    /\ http' = Constructed(url)
    /\ counter' = IF http'.result.ok THEN NewCounter ELSE counter
    /\ UNCHANGED <<issued, wrapped, respVars>>

(***************************************************************************)
(* Transport for Http / BatchTransport for Http.                           *)
(***************************************************************************)
\* fn prepare(&self, method, params) -> (RequestId, rpc::Call), called on clone t
prepare(t, method) ==
    /\ Usable
    /\ Len(issued) < MaxPrepares
    /\ LET f == fetch_add(counter)
           id == f.prev
           request == build_request(id, method, << >>)
       IN /\ counter' = f.next
          /\ issued' = Append(issued, [by |-> t, id |-> id, call |-> request])
          /\ wrapped' = (wrapped \/ f.next < f.prev)
    /\ UNCHANGED <<http, respVars>>

\* fn send_request(&self, id, request, extract) -> Response<F>: the request goes
\* to the client and a Response in state Waiting is returned into slot r
send_request(r, id, request, extract) ==
    /\ Usable
    /\ resp' = [resp EXCEPT ![r] = NewResponse(id, extract)]
    /\ sent' = [sent EXCEPT ![r] = request]
    /\ wire' = [wire EXCEPT ![r] = <<hyper_request(http.result, request)>>]
    /\ net' = [net EXCEPT ![r] = NewNet]
    /\ ctl' = [ctl EXCEPT ![r] = "idle"]
    /\ hist' = [hist EXCEPT ![r] = NewHist]

\* rpc::Request::Single / rpc::Request::Batch
RequestSingle(call) == [kind |-> "Single", calls |-> <<call>>]
RequestBatch(calls) == [kind |-> "Batch", calls |-> calls]

\* fn send(&self, id, request) -> Self::Out
send(r, id, request) ==
    /\ send_request(r, id, RequestSingle(request), "single_response")
    /\ UNCHANGED idVars

\* send_batch: it.next().map(|x| (x.0, Some(x.1))).unwrap_or_else(|| (0, None))
BatchId(requests) == IF requests = << >> THEN 0 ELSE requests[1][1]
BatchFirst(requests) == IF requests = << >> THEN << >> ELSE <<requests[1][2]>>
\* a collection of the calls that it.next() has left in the iterator
BatchCalls_rest_only(requests) ==
    [i \in 1..(Len(requests) - 1) |-> requests[i + 1][2]]

\* first.into_iter().chain(it.map(|x| x.1)).collect()
BatchCalls(requests) ==
    BatchFirst(requests) \o [i \in 1..(Len(requests) - 1) |-> requests[i + 1][2]]

\* fn send_batch<T>(&self, requests: T) -> Self::Batch
send_batch(r, requests) ==
    /\ send_request(r, BatchId(requests), RequestBatch(BatchCalls(requests)), "batch_response")
    /\ UNCHANGED idVars

\* what the callers hand to send and send_batch: (id, Call) pairs as prepare builds them
Pairs == {<<i, build_request(i, m, << >>)>> : i \in SendIds, m \in Methods}
PairSeqs == UNION {[1..n -> Pairs] : n \in 0..MaxBatch}

(***************************************************************************)
(* impl Future for Response: poll.  One step is one turn of poll's loop;   *)
(* ctl says whether the owner is inside poll.                              *)
(***************************************************************************)
\* a success test that lets redirects through
is_success_below_400(status) == 200 <= status /\ status < 400

\* StatusCode::is_success
is_success(status) == 200 <= status /\ status < 300

\* an accumulator that keeps only the last chunk
extend_overwrite(content, chunk) == chunk

\* Vec::extend
extend(content, chunk) == content \o chunk

\* what one turn of the loop does: the new Response, whether poll returns
\* (Pending, Ready) or loops (Continue), the output, whether extract ran
Turn(p, ret, out, extracted) ==
    [resp |-> p, ret |-> ret, out |-> out, extracted |-> extracted]
NoOutput == [none |-> TRUE]

\* what Pin::new(waiting).poll(ctx) can answer
WaitingEvents ==
    {[type |-> "Pending"], [type |-> "Err"]} \cup [type : {"Response"}, status : Statuses]

\* what Pin::new(body).poll_next(ctx) can answer
Chunks == UNION {[1..n -> Tokens] : n \in 0..MaxChunk}
ReadingEvents ==
    {[type |-> "Pending"], [type |-> "ChunkErr"], [type |-> "End"]}
        \cup [type : {"Chunk"}, chunk : Chunks]

\* ResponseState::Waiting(ref mut waiting) => ...
WaitingArm(p, ev) ==
    CASE ev.type = "Pending" -> Turn(p, "Pending", NoOutput, FALSE)
      [] ev.type = "Err" -> Turn(p, "Ready", ErrTransport("hyper::Error"), FALSE)
      [] ev.type = "Response" ->
            IF ~is_success(ev.status)
            THEN Turn(p, "Ready",
                      ErrTransportStatus("Unexpected response status code: ", ev.status),
                      FALSE)
            ELSE Turn([p EXCEPT !.state = "Reading", !.content = << >>],
                      "Continue", NoOutput, FALSE)

\* a Reading arm that extracts at the end of the body but does not return
ReadingArm_no_return(p, ev) ==
    CASE ev.type = "Pending" -> Turn(p, "Pending", NoOutput, FALSE)
      [] ev.type = "Chunk" ->
            Turn([p EXCEPT !.content = p.content \o ev.chunk], "Continue", NoOutput, FALSE)
      [] ev.type = "ChunkErr" -> Turn(p, "Ready", ErrTransport("hyper::Error"), FALSE)
      [] ev.type = "End" ->
            Turn([p EXCEPT !.content = << >>], "Continue",
                 Extract(p.extract, p.content), TRUE)

\* a Reading arm that reconciles the id of a single Output with the request id
ReadingArm_match_id(p, ev) ==
    CASE ev.type = "Pending" -> Turn(p, "Pending", NoOutput, FALSE)
      [] ev.type = "Chunk" ->
            Turn([p EXCEPT !.content = p.content \o ev.chunk], "Continue", NoOutput, FALSE)
      [] ev.type = "ChunkErr" -> Turn(p, "Ready", ErrTransport("hyper::Error"), FALSE)
      [] ev.type = "End" ->
            LET parsed == from_slice(p.content)
                out == IF /\ p.extract = "single_response"
                          /\ parsed.ok
                          /\ parsed.doc.shape = "Single"
                          /\ parsed.doc.output.id # p.id
                       THEN ErrInvalidResponse("id mismatch")
                       ELSE Extract(p.extract, p.content)
            IN Turn([p EXCEPT !.content = << >>], "Ready", out, TRUE)

\* a Reading arm that starts over in Waiting after a chunk read error
ReadingArm_retry(p, ev) ==
    CASE ev.type = "Pending" -> Turn(p, "Pending", NoOutput, FALSE)
      [] ev.type = "Chunk" ->
            Turn([p EXCEPT !.content = p.content \o ev.chunk], "Continue", NoOutput, FALSE)
      [] ev.type = "ChunkErr" ->
            Turn([p EXCEPT !.state = "Waiting", !.content = << >>],
                 "Ready", ErrTransport("hyper::Error"), FALSE)
      [] ev.type = "End" ->
            Turn([p EXCEPT !.content = << >>], "Ready", Extract(p.extract, p.content), TRUE)

\* a Reading arm that extracts what it has when a chunk cannot be read
ReadingArm_extract_on_error(p, ev) ==
    CASE ev.type = "Pending" -> Turn(p, "Pending", NoOutput, FALSE)
      [] ev.type = "Chunk" ->
            Turn([p EXCEPT !.content = p.content \o ev.chunk], "Continue", NoOutput, FALSE)
      [] ev.type \in {"ChunkErr", "End"} ->
            Turn([p EXCEPT !.content = << >>], "Ready", Extract(p.extract, p.content), TRUE)

\* a Reading arm that answers Pending at the end of the body
ReadingArm_pending_at_end(p, ev) ==
    CASE ev.type \in {"Pending", "End"} -> Turn(p, "Pending", NoOutput, FALSE)
      [] ev.type = "Chunk" ->
            Turn([p EXCEPT !.content = p.content \o ev.chunk], "Continue", NoOutput, FALSE)
      [] ev.type = "ChunkErr" -> Turn(p, "Ready", ErrTransport("hyper::Error"), FALSE)

\* ResponseState::Reading(ref mut content, ref mut body) => ...
ReadingArm(p, ev) ==
    CASE ev.type = "Pending" -> Turn(p, "Pending", NoOutput, FALSE)
      [] ev.type = "Chunk" ->
            Turn([p EXCEPT !.content = extend(p.content, ev.chunk)],
                 "Continue", NoOutput, FALSE)
      [] ev.type = "ChunkErr" -> Turn(p, "Ready", ErrTransport("hyper::Error"), FALSE)
      [] ev.type = "End" ->
            LET response == p.content IN
            Turn([p EXCEPT !.content = << >>], "Ready", Extract(p.extract, response), TRUE)

\* match self.state { ... }
PollTurn(p, ev) == IF p.state = "Waiting" THEN WaitingArm(p, ev) ELSE ReadingArm(p, ev)

\* tokens delivered to all Responses so far
RECURSIVE SumDelivered(_)
SumDelivered(S) ==
    IF S = {} THEN 0
    ELSE LET r == CHOOSE x \in S : TRUE IN Len(hist[r].delivered) + SumDelivered(S \ {r})

\* the answers the HTTP side can give to the poll made in this turn.  A
\* ResponseFuture that has completed, and a body that has ended or failed,
\* are polled again only by a poll made after the result: the future then
\* panics, the stream either ends again or panics.
Events(r) ==
    IF resp[r].state = "Waiting"
    THEN IF net[r].call = "inflight" THEN WaitingEvents ELSE {[type |-> "Panic"]}
    ELSE IF net[r].body = "open"
         THEN {e \in ReadingEvents :
                 e.type = "Chunk" => SumDelivered(Slots) + Len(e.chunk) <= MaxBody}
         ELSE {[type |-> "End"], [type |-> "Panic"]}

\* the HTTP side after answering ev
NetAfter(n, ev) ==
    CASE ev.type = "Err" -> [n EXCEPT !.call = "taken"]
      [] ev.type = "Response" -> [n EXCEPT !.call = "taken", !.body = "open"]
      [] ev.type = "ChunkErr" -> [n EXCEPT !.body = "failed"]
      [] ev.type = "End" -> [n EXCEPT !.body = IF @ = "open" THEN "ended" ELSE @]
      [] OTHER -> n

\* the history after a turn that answered ev and did t
HistAfter(h, ev, t) ==
    [h EXCEPT
       !.status = IF ev.type = "Response" THEN ev.status ELSE @,
       !.delivered = IF ev.type = "Chunk" THEN @ \o ev.chunk ELSE @,
       !.chunks = IF ev.type = "Chunk" /\ @ < 2 THEN @ + 1 ELSE @,
       !.entered = @ \/ (t.resp.state = "Reading"),
       !.suspended = @ \/ (ev.type = "Pending" /\ h.delivered # << >>),
       !.results = IF t.ret = "Ready" THEN Append(@, t.out) ELSE @,
       !.extracts = IF t.extracted THEN @ + 1 ELSE @]

\* the executor polls the future: the first poll, or a poll after a wake-up
poll(r) ==
    /\ resp[r] # NoResponse
    /\ ctl[r] = "idle"
    /\ ctl' = [ctl EXCEPT ![r] = "running"]
    /\ hist' = [hist EXCEPT ![r].polledIn = resp[r].state]
    /\ UNCHANGED <<idVars, resp, sent, wire, net>>

\* the owner polls a Response that has already returned its result
poll_again(r) ==
    /\ resp[r] # NoResponse
    /\ ctl[r] = "ready"
    /\ hist[r].latePolls < MaxLatePolls
    /\ ctl' = [ctl EXCEPT ![r] = "running"]
    /\ hist' = [hist EXCEPT ![r].latePolls = @ + 1, ![r].polledIn = resp[r].state]
    /\ UNCHANGED <<idVars, resp, sent, wire, net>>

\* one accumulator that all Responses in flight write to
StoreResp_shared(r, p) ==
    [x \in Slots |->
        IF x = r THEN p
        ELSE IF resp[x] = NoResponse THEN resp[x]
        ELSE [resp[x] EXCEPT !.content = p.content]]

\* poll(mut self: Pin<&mut Self>, ..): state and content are fields of the
\* Response that is polled
StoreResp(r, p) == [resp EXCEPT ![r] = p]

\* one turn of the loop in poll, the HTTP side answering with one of evs
poll_turn_on(r, evs) ==
    /\ resp[r] # NoResponse
    /\ ctl[r] = "running"
    /\ \E ev \in evs :
          IF ev.type = "Panic"
          THEN /\ ctl' = [ctl EXCEPT ![r] = "panicked"]
               /\ UNCHANGED <<idVars, resp, sent, wire, net, hist>>
          ELSE LET t == PollTurn(resp[r], ev) IN
               /\ resp' = StoreResp(r, t.resp)
               /\ net' = [net EXCEPT ![r] = NetAfter(@, ev)]
               /\ hist' = [hist EXCEPT ![r] = HistAfter(@, ev, t)]
               /\ ctl' = [ctl EXCEPT ![r] =
                             CASE t.ret = "Pending" -> "idle"
                               [] t.ret = "Ready" -> "ready"
                               [] OTHER -> "running"]
               /\ UNCHANGED <<idVars, sent, wire>>

\* one turn of the loop in poll
poll_turn(r) == poll_turn_on(r, Events(r))

(***************************************************************************)
(* Specifications.                                                         *)
(***************************************************************************)
Prepare == \E t \in Clones, m \in Methods : prepare(t, m)
SendTo(r) == \E p \in Pairs : send(r, p[1], p[2])
SendBatchTo(r) == \E ps \in PairSeqs : send_batch(r, ps)
Send == \E r \in Slots : SendTo(r)
SendBatch == \E r \in Slots : SendBatchTo(r)
Poll == \E r \in Slots : poll(r)
PollAgain == \E r \in Slots : poll_again(r)
PollTurnStep == \E r \in Slots : poll_turn(r)

\* everything
Next == Prepare \/ Send \/ SendBatch \/ Poll \/ PollAgain \/ PollTurnStep
Spec == Init /\ [][Next]_vars

\* the id counter under prepare, send and send_batch: the clones prepare in
\* any order, and requests are sent (and dropped, when sent again) in between
NextIds == Prepare \/ SendTo("r1") \/ SendBatchTo("r1")
SpecIds == Init /\ [][NextIds]_vars

\* one Response, from send or send_batch to its result and beyond
Fresh(r) == resp[r] = NoResponse
NextResp ==
    \/ Fresh("r1") /\ SendTo("r1")
    \/ Fresh("r1") /\ SendBatchTo("r1")
    \/ poll("r1")
    \/ poll_again("r1")
    \/ poll_turn("r1")
SpecResp == Init /\ [][NextResp]_vars

\* two Responses in flight at once: a single request in r1 and a batch of
\* two in r2.  Each server sends its own document, in any chunking, and may
\* end or break the body at any point; the owners poll in any interleaving.
PairBody(r) == IF r = "r1" THEN <<"S1">> ELSE <<"[", "F2", "]">>
IsPrefix(a, b) == Len(a) <= Len(b) /\ SubSeq(b, 1, Len(a)) = a
PairEvents(r) ==
    {e \in Events(r) :
        e.type = "Chunk" => IsPrefix(hist[r].delivered \o e.chunk, PairBody(r))}
SendFirst == Fresh("r1") /\ SendTo("r1")
SendSecond == Fresh("r2") /\ \E ps \in PairSeqs : Len(ps) = 2 /\ send_batch("r2", ps)
PollPair == \E r \in Slots : poll(r)
PollTurnPair == \E r \in Slots : poll_turn_on(r, PairEvents(r))
NextPair == SendFirst \/ SendSecond \/ PollPair \/ PollTurnPair
SpecPair == Init /\ [][NextPair]_vars

\* one Response whose owner polls it again after every wake-up and whose
\* HTTP side resolves: the call eventually answers with a response or an
\* error, and the body eventually ends or fails
SendLive == Fresh("r2") /\ (SendTo("r2") \/ SendBatchTo("r2"))
PollLive == poll("r2")
TurnLive == poll_turn_on("r2", PairEvents("r2"))
CallResolves ==
    poll_turn_on("r2", {e \in PairEvents("r2") : e.type \in {"Err", "Response"}})
BodyFinishes ==
    poll_turn_on("r2", {e \in PairEvents("r2") : e.type \in {"ChunkErr", "End"}})
NextLive == SendLive \/ PollLive \/ TurnLive
SpecLive ==
    /\ Init /\ [][NextLive]_vars
    /\ WF_vars(PollLive) /\ WF_vars(TurnLive)
    /\ SF_vars(CallResolves) /\ SF_vars(BodyFinishes)

\* the URL strings handed to Http::new: the test server's, the three of the
\* basic auth tests, one with empty user info, one with a user name only,
\* two with a path that holds a space, one without scheme, one without host
Urls ==
    {TestUrl,
     <<"https://", "user", ":", "password", "@", "127.0.0.1:8545">>,
     <<"https://", "username", ":", "@", "127.0.0.1:8545">>,
     <<"https://", ":", "password", "@", "127.0.0.1:8545">>,
     <<"https://", ":", "@", "127.0.0.1:8545">>,
     <<"https://", "user", "@", "127.0.0.1:8545">>,
     <<"https://", "127.0.0.1:8545", "/a b">>,
     <<"https://", "user", ":", "password", "@", "127.0.0.1:8545", "/a b">>,
     <<"127.0.0.1:8545">>,
     <<"https://">>}

\* a method name that makes the serialized single call exactly len bytes long
RECURSIVE Pad(_)
Pad(n) == IF n = 0 THEN "" ELSE "x" \o Pad(n - 1)
MethodFor(len) == "eth_" \o Pad(len - Len(CallJson(build_request(1, "eth_", << >>))))
LongMethods == {MethodFor(MAX_SINGLE_CHUNK - 1), MethodFor(MAX_SINGLE_CHUNK)}
LongPairs == {<<i, build_request(i, m, << >>)>> : i \in SendIds, m \in LongMethods}

\* construction, then prepare, send and send_batch, with bodies on both
\* sides of MAX_SINGLE_CHUNK
New == \E url \in Urls : new(url)
PrepareHttp == \E m \in Methods : prepare("http", m)
SendHttp == \E r \in Slots, p \in Pairs \cup LongPairs : Fresh(r) /\ send(r, p[1], p[2])
SendBatchHttp ==
    \E r \in Slots, ps \in PairSeqs \cup {<<p>> : p \in LongPairs} :
        Fresh(r) /\ send_batch(r, ps)
NextHttp == New \/ PrepareHttp \/ SendHttp \/ SendBatchHttp
SpecHttp == InitNew /\ [][NextHttp]_vars

(***************************************************************************)
(* Properties of the id counter (SpecIds).                                 *)
(***************************************************************************)
\* C1: whatever the interleaving of the prepare calls of the transport and
\* its clones, no two of them return the same id as long as the counter has
\* not gone once around: any two prepares fewer than 2^w apart differ.
C1_UniqueIds ==
    \A i, j \in 1..Len(issued) :
        (i < j /\ j - i < Modulus) => issued[i].id # issued[j].id

\* two clones have each been handed an id
C1_Witness ==
    \E i, j \in 1..Len(issued) :
        /\ i < j /\ j < Modulus
        /\ issued[i].by # issued[j].by
        /\ issued[i].id # issued[j].id

\* C2: the k-th prepare returns k (so never 0 before the wraparound), each id
\* is the previous one plus 1, and the counter is the initial 1 plus the
\* number of prepares, whatever was sent in between.
C2_KthPrepareReturnsK ==
    /\ \A k \in 1..Len(issued) :
          k < Modulus => (issued[k].id = k /\ issued[k].id # 0)
    /\ \A k \in 1..(Len(issued) - 1) :
          k + 1 < Modulus => issued[k + 1].id = issued[k].id + 1
    /\ counter = (1 + Len(issued)) % Modulus

\* two prepares with a batch sent in between and a single request after
C2_Witness ==
    /\ Len(issued) = 2
    /\ issued[1].id = 1 /\ issued[2].id = 2
    /\ resp["r1"] # NoResponse
    /\ sent["r1"].kind = "Batch" /\ Len(sent["r1"].calls) = 2

(***************************************************************************)
(* Properties of one Response (SpecResp).                                  *)
(***************************************************************************)
Live == {r \in Slots : resp[r] # NoResponse}

\* the body of r's HTTP response reached its end, so r's first result is
\* the one poll returned at the end of the body
Ended(r) == net[r].body = "ended"

\* the shapes of a response document, read off the tokens
IsSingleDoc(d) == Len(d) = 1 /\ d[1] \in ObjTokens
IsArrayDoc(d) ==
    /\ Len(d) >= 2
    /\ d[1] = "[" /\ d[Len(d)] = "]"
    /\ \A i \in 2..(Len(d) - 1) : d[i] \in ObjTokens

\* what an Output stands for: its success value, or its error code and message
Outcome(o) ==
    IF o.kind = "Success" THEN [kind |-> "Ok", value |-> o.result]
    ELSE [kind |-> "Rpc", error |-> [code |-> o.error.code, message |-> o.error.message]]

\* C3: a status that is not 2xx resolves the Response at once with a
\* Transport error naming the status; Reading is never entered, no chunk is
\* read, extract never runs and no result is an InvalidResponse.
C3_NonSuccessStatus ==
    \A r \in Live :
        (hist[r].status # 0 /\ ~(hist[r].status \in 200..299)) =>
            /\ Len(hist[r].results) >= 1
            /\ hist[r].results[1] =
                  [kind |-> "Transport", msg |-> "Unexpected response status code: ",
                   status |-> hist[r].status]
            /\ resp[r].state = "Waiting"
            /\ ~hist[r].entered
            /\ hist[r].chunks = 0 /\ hist[r].delivered = << >>
            /\ hist[r].extracts = 0
            /\ \A i \in 1..Len(hist[r].results) : hist[r].results[i].kind # "InvalidResponse"

\* a 500 has resolved the Response
C3_Witness ==
    /\ "r1" \in Live
    /\ hist["r1"].status = 500
    /\ ctl["r1"] = "ready"
    /\ hist["r1"].results = <<[kind |-> "Transport", msg |-> "Unexpected response status code: ",
                               status |-> 500]>>

\* C4: Reading is entered only on a 2xx status; while the body is being read
\* the accumulator is the concatenation of the chunks delivered so far (empty
\* on entry) up to the poll that returns the result; at the end of the body
\* the result is the extraction function of the request's shape applied to
\* that concatenation.
C4_Accumulator ==
    \A r \in Live :
        /\ hist[r].entered => hist[r].status \in 200..299
        /\ (resp[r].state = "Reading" /\ ~Ended(r) /\ hist[r].latePolls = 0) =>
              resp[r].content = hist[r].delivered
        /\ (hist[r].entered /\ hist[r].chunks = 0) => hist[r].delivered = << >>
        /\ Ended(r) =>
              /\ Len(hist[r].results) >= 1
              /\ hist[r].results[1] =
                    IF sent[r].kind = "Single" THEN single_response(hist[r].delivered)
                    ELSE batch_response(hist[r].delivered)

\* a body that came in several chunks, with a suspension in between, resolved
C4_Witness ==
    /\ "r1" \in Live
    /\ Ended("r1")
    /\ hist["r1"].chunks >= 2
    /\ hist["r1"].suspended
    /\ Len(hist["r1"].delivered) >= 3
    /\ hist["r1"].results[1].kind = "Ok"

\* C5 as claimed: once a result is returned nothing more can happen: no
\* second result, no second run of the extraction function.
C5_Original ==
    \A r \in Live : Len(hist[r].results) <= 1 /\ hist[r].extracts <= 1

\* C5 amended: the machine has the two states Waiting and Reading only; a
\* poll that returns a result leaves it in the state it was in (with the
\* accumulator emptied at the end of the body), and as long as the owner does
\* not poll again after the result there is one result and at most one run of
\* the extraction function.
C5_Amended ==
    \A r \in Live :
        /\ resp[r].state \in {"Waiting", "Reading"}
        /\ hist[r].latePolls = 0 =>
              /\ Len(hist[r].results) <= 1
              /\ hist[r].extracts <= Len(hist[r].results)
              /\ ctl[r] = "ready" <=> Len(hist[r].results) = 1
        /\ (ctl[r] = "ready" /\ hist[r].latePolls = 0) =>
              /\ net[r].body \in {"none", "open"} => resp[r].state = "Waiting"
              /\ net[r].body \in {"ended", "failed"} => resp[r].state = "Reading"
              /\ Ended(r) => (resp[r].content = << >> /\ hist[r].extracts = 1)

\* the result of an extraction has been returned and the state is still Reading
C5_Witness ==
    /\ "r1" \in Live
    /\ ctl["r1"] = "ready"
    /\ hist["r1"].latePolls = 0
    /\ hist["r1"].extracts = 1
    /\ resp["r1"].state = "Reading"

\* C6: a single send whose body is an array, and a batch send whose body is
\* one object, resolve with the InvalidResponse of the mismatch.
C6_ShapeMismatch ==
    \A r \in Live :
        Ended(r) =>
            /\ (sent[r].kind = "Single" /\ IsArrayDoc(hist[r].delivered)) =>
                  hist[r].results[1] =
                      [kind |-> "InvalidResponse", msg |-> "Expected single, got batch."]
            /\ (sent[r].kind = "Batch" /\ IsSingleDoc(hist[r].delivered)) =>
                  hist[r].results[1] =
                      [kind |-> "InvalidResponse", msg |-> "Expected batch, got single."]

\* a single send was answered with an array of one Output
C6_Witness ==
    /\ "r1" \in Live
    /\ Ended("r1")
    /\ sent["r1"].kind = "Single"
    /\ hist["r1"].delivered = <<"[", "S1", "]">>
    /\ hist["r1"].results[1].kind = "InvalidResponse"

\* C7: a 2xx body that ends without a read error and is no response
\* document (the empty body included) resolves with an InvalidResponse.
C7_MalformedBody ==
    \A r \in Live :
        (Ended(r) /\ ~IsSingleDoc(hist[r].delivered) /\ ~IsArrayDoc(hist[r].delivered)) =>
            hist[r].results[1].kind = "InvalidResponse"

\* a batch send was answered 200 with an empty body
C7_Witness ==
    /\ "r1" \in Live
    /\ Ended("r1")
    /\ sent["r1"].kind = "Batch"
    /\ hist["r1"].status = 200
    /\ hist["r1"].chunks = 0 /\ hist["r1"].delivered = << >>
    /\ hist["r1"].results[1].kind = "InvalidResponse"

\* C8: a single send whose body is one Output resolves to that Output's
\* outcome, whatever the Output's id and the id of the request.
C8_SingleOutcome ==
    \A r \in Live :
        (Ended(r) /\ sent[r].kind = "Single") =>
            \A o \in Outputs :
                hist[r].delivered = <<Encode(o)>> => hist[r].results[1] = Outcome(o)

\* request 2 was answered with the Output of id 1 and resolved to its value
C8_Witness ==
    /\ "r1" \in Live
    /\ Ended("r1")
    /\ sent["r1"].kind = "Single"
    /\ resp["r1"].id = 2 /\ sent["r1"].calls[1].id = 2
    /\ hist["r1"].delivered = <<"S1">>
    /\ hist["r1"].results[1] = [kind |-> "Ok", value |-> "x"]

\* C9: a batch send whose body is an array of n Outputs resolves to the list
\* of n outcomes, the i-th being that of the Output at position i.
C9_BatchPositional ==
    \A r \in Live :
        (Ended(r) /\ sent[r].kind = "Batch" /\ IsArrayDoc(hist[r].delivered)) =>
            LET d == hist[r].delivered
                res == hist[r].results[1]
            IN /\ res.kind = "Ok"
               /\ Len(res.list) = Len(d) - 2
               /\ \A i \in 1..(Len(d) - 2) : res.list[i] = Outcome(Decode(d[i + 1]))

\* calls 1 and 2 were answered with the Outputs of ids 2 and 1, in that order
C9_Witness ==
    /\ "r1" \in Live
    /\ Ended("r1")
    /\ sent["r1"].kind = "Batch"
    /\ Len(sent["r1"].calls) = 2
    /\ sent["r1"].calls[1].id = 1 /\ sent["r1"].calls[2].id = 2
    /\ hist["r1"].delivered = <<"[", "F2", "S1", "]">>
    /\ hist["r1"].results[1].list[1].kind = "Rpc"
    /\ hist["r1"].results[1].list[2] = [kind |-> "Ok", value |-> "x"]

\* the number of Outputs in a body
CountOutputs(d) == Cardinality({i \in 1..Len(d) : d[i] \in ObjTokens})

\* C10 as claimed: a batch send of n calls that resolves successfully has n results.
C10_Original ==
    \A r \in Live :
        (Ended(r) /\ sent[r].kind = "Batch" /\ hist[r].results[1].kind = "Ok") =>
            Len(hist[r].results[1].list) = Len(sent[r].calls)

\* C10 amended: a batch send that resolves successfully has one result per
\* Output of the response array, which is one per call only when the server
\* answered with as many Outputs as there were calls.
C10_Amended ==
    \A r \in Live :
        (Ended(r) /\ sent[r].kind = "Batch" /\ hist[r].results[1].kind = "Ok") =>
            /\ Len(hist[r].results[1].list) = CountOutputs(hist[r].delivered)
            /\ (Len(hist[r].results[1].list) = Len(sent[r].calls)
                    <=> CountOutputs(hist[r].delivered) = Len(sent[r].calls))

\* a batch of two calls resolved successfully with one result
C10_Witness ==
    /\ "r1" \in Live
    /\ Ended("r1")
    /\ sent["r1"].kind = "Batch"
    /\ Len(sent["r1"].calls) = 2
    /\ hist["r1"].results[1].kind = "Ok"
    /\ Len(hist["r1"].results[1].list) = 1


(***************************************************************************)
(* The requests sent and the construction of the transport (SpecHttp).     *)
(***************************************************************************)
\* C11: send_batch on a sequence of (id, Call) pairs hands the client a
\* Batch that holds exactly the input calls in input order, creates a
\* Response whose id is the id of the first pair, or 0 for an empty
\* sequence, and issues one request in either case; the body of an empty
\* batch is the empty array.
C11_BatchEnvelope ==
    [][\A r \in Slots, ps \in PairSeqs :
          send_batch(r, ps) =>
             /\ sent'[r].kind = "Batch"
             /\ Len(sent'[r].calls) = Len(ps)
             /\ \A i \in 1..Len(ps) : sent'[r].calls[i] = ps[i][2]
             /\ resp'[r].id = (IF ps = << >> THEN 0 ELSE ps[1][1])
             /\ resp'[r].extract = "batch_response"
             /\ resp'[r].state = "Waiting"
             /\ Len(wire'[r]) = 1
             /\ wire'[r][1].body = to_string(sent'[r])
             /\ (ps = << >> => wire'[r][1].body = "[]")]_vars

\* a batch of the calls 2 and 1, in that order, has been sent
C11_Witness ==
    /\ resp["r1"] # NoResponse
    /\ sent["r1"].kind = "Batch"
    /\ Len(sent["r1"].calls) = 2
    /\ sent["r1"].calls[1].id = 2 /\ sent["r1"].calls[2].id = 1
    /\ resp["r1"].id = 2
    /\ Len(wire["r1"]) = 1

Basic(c) == Some([scheme |-> "Basic ", credentials |-> c])

\* C13: a transport constructed from a well-formed URL has no auth header if
\* and only if the user name and the password of the URL are both empty; in
\* every other case its auth header is "Basic " followed by the base64
\* encoding of user name, colon, password.  For the URLs of the tests these
\* are "Basic dXNlcjpwYXNzd29yZA==", "Basic dXNlcm5hbWU6" and
\* "Basic OnBhc3N3b3Jk"; for a user name alone, "Basic dXNlcjo=".
C13_BasicAuth ==
    (http.made /\ http.result.ok) =>
        LET url == Url_parse(http.input).url
            user == url.username
            password == IF url.password.some THEN url.password.value ELSE << >>
            header == http.result.basic_auth
        IN /\ header = None <=> (user = << >> /\ password = << >>)
           /\ header # None =>
                 header = Basic(base64_encode(user \o <<58>> \o password))
           /\ http.input = <<"https://", "user", ":", "password", "@", "127.0.0.1:8545">>
                 => header = Basic(<<29, 23, 13, 37, 28, 35, 41, 48, 24, 23,
                                     13, 51, 29, 54, 61, 50, 25, 0, 64, 64>>)
           /\ http.input = <<"https://", "username", ":", "@", "127.0.0.1:8545">>
                 => header = Basic(<<29, 23, 13, 37, 28, 38, 57, 33, 27, 22, 20, 58>>)
           /\ http.input = <<"https://", ":", "password", "@", "127.0.0.1:8545">>
                 => header = Basic(<<14, 39, 1, 33, 28, 55, 13, 55, 27, 55, 9, 36>>)
           /\ http.input = <<"https://", "user", "@", "127.0.0.1:8545">>
                 => header = Basic(<<29, 23, 13, 37, 28, 35, 40, 64>>)
           /\ http.input \in {TestUrl, <<"https://", ":", "@", "127.0.0.1:8545">>}
                 => header = None

\* a transport was constructed from a URL with a password and no user name
C13_Witness ==
    /\ http.made /\ http.result.ok
    /\ http.input = <<"https://", ":", "password", "@", "127.0.0.1:8545">>
    /\ http.result.basic_auth # None
    /\ Len(http.result.basic_auth.value.credentials) = 12

\* every request handed to the client is a POST to the transport's URL with
\* the fixed Content-Type and User-Agent, and with the transport's auth
\* header as Authorization when there is one
RequestsWellFormed ==
    \A r \in Slots : \A i \in 1..Len(wire[r]) :
        LET q == wire[r][i] IN
        /\ q.method = "POST"
        /\ q.uri = http.result.url
        /\ q.uri = Uri_from_str(http.input).uri
        /\ q.headers.content_type = Some("application/json")
        /\ q.headers.user_agent = Some("web3.rs")
        /\ q.headers.authorization.some <=> http.result.basic_auth.some
        /\ q.headers.authorization = http.result.basic_auth

\* C14: every request issued, single or batch, is a POST to the URL fixed
\* at construction with Content-Type application/json and User-Agent
\* web3.rs, and carries Authorization if and only if an auth header was
\* resolved at construction, with exactly that value; and once the
\* transport is constructed no prepare, send or send_batch changes its URL
\* or its auth header.
C14_RequestShape ==
    /\ []RequestsWellFormed
    /\ [][http.made => http' = http]_vars

\* a transport with an auth header has prepared an id and has sent a single
\* request and a batch
C14_Witness ==
    /\ http.made /\ http.result.ok /\ http.result.basic_auth.some
    /\ Len(issued) > 0
    /\ Len(wire["r1"]) = 1 /\ sent["r1"].kind = "Single"
    /\ Len(wire["r2"]) = 1 /\ sent["r2"].kind = "Batch" /\ Len(sent["r2"].calls) = 2
    /\ wire["r1"][1].headers.authorization = http.result.basic_auth
    /\ wire["r2"][1].headers.authorization = http.result.basic_auth

\* no id has been allocated and no request has been sent
NothingDone ==
    /\ issued = << >>
    /\ \A r \in Slots : resp[r] = NoResponse /\ sent[r] = NoRequest /\ wire[r] = << >>

\* C17: Http::new returns a transport exactly when the URL string parses as
\* a URL and as the request URI (and the auth header value is valid).
\* Otherwise it returns a Transport error and there is no transport: no id
\* is ever allocated and no request is ever sent.  A transport that is
\* returned has the URI of the string as its URL, its auth header resolved
\* (absent, or a "Basic" value), and its counter at 1 until the first
\* prepare.
C17_AllOrNothing ==
    /\ ~http.made => NothingDone
    /\ http.made =>
          LET parsed == Url_parse(http.input)
              uri == Uri_from_str(http.input)
              new_ == http.result
          IN /\ new_.ok <=> (parsed.ok /\ uri.ok)
             /\ ~new_.ok =>
                   /\ DOMAIN new_ = {"ok", "error"}
                   /\ new_.error.kind = "Transport"
                   /\ new_.error.msg \in
                         {"RelativeUrlWithoutBase", "EmptyHost", "InvalidUri(InvalidUriChar)"}
                   /\ NothingDone
             /\ new_.ok =>
                   /\ DOMAIN new_ = {"ok", "url", "basic_auth"}
                   /\ new_.url = uri.uri
                   /\ \/ new_.basic_auth = None
                      \/ /\ new_.basic_auth.some
                         /\ new_.basic_auth.value.scheme = "Basic "
                         /\ new_.basic_auth.value.credentials # << >>
                   /\ issued = << >> => counter = 1

\* Http::new was given a URL that parses as a URL but not as a request URI
C17_Witness ==
    /\ http.made
    /\ ~http.result.ok
    /\ Url_parse(http.input).ok
    /\ http.result.error = ErrTransport("InvalidUri(InvalidUriChar)")

(***************************************************************************)
(* Failures of one Response (SpecResp).                                    *)
(***************************************************************************)
\* the HTTP call of r failed / a chunk of r's body could not be read
CallFailed(r) == net[r].call = "taken" /\ hist[r].status = 0
ChunkFailed(r) == net[r].body = "failed"
\* the HTTP side of r has failed in one of the three ways it can
Failed(r) ==
    \/ CallFailed(r)
    \/ hist[r].status # 0 /\ ~(hist[r].status \in 200..299)
    \/ ChunkFailed(r)

\* C15: a send or send_batch issues exactly one HTTP request, at the call;
\* no step of the Response issues another, whatever fails afterwards; a
\* failure of the HTTP side resolves the Response with the Transport error
\* at once; and a Response that has entered Reading never is in Waiting
\* again.
C15_NoRetry ==
    /\ [](\A r \in Live :
             /\ Len(wire[r]) = 1
             /\ hist[r].entered => resp[r].state = "Reading"
             /\ Failed(r) =>
                   /\ Len(hist[r].results) >= 1
                   /\ hist[r].results[1].kind = "Transport")
    /\ [][\A r \in Slots :
             /\ (Fresh(r) /\ resp'[r] # NoResponse) =>
                   (Len(wire'[r]) = 1 /\ resp'[r].state = "Waiting")
             /\ ~Fresh(r) =>
                   /\ wire'[r] = wire[r]
                   /\ resp[r].state = "Reading" => resp'[r].state = "Reading"]_vars

\* two chunks were read and the third could not be: the Response has
\* resolved in Reading, with the one request of the send
C15_Witness ==
    /\ "r1" \in Live
    /\ ChunkFailed("r1")
    /\ hist["r1"].chunks = 2
    /\ ctl["r1"] = "ready"
    /\ resp["r1"].state = "Reading"
    /\ Len(wire["r1"]) = 1

\* C18: when the HTTP call fails, or a chunk cannot be read, the Response
\* resolves with a Transport error and the extraction function has not
\* run, whatever was accumulated before (as long as the owner does not poll
\* the resolved Response again).  So a first result other than a Transport
\* error (a value, an Rpc error, an InvalidResponse) is returned only after a
\* 2xx status and the end of the body.
C18_FailureSkipsExtract ==
    \A r \in Live :
        /\ CallFailed(r) =>
              /\ Len(hist[r].results) >= 1
              /\ hist[r].results[1] = ErrTransport("hyper::Error")
              /\ resp[r].state = "Waiting"
              /\ hist[r].extracts = 0
        /\ ChunkFailed(r) =>
              /\ Len(hist[r].results) >= 1
              /\ hist[r].results[1] = ErrTransport("hyper::Error")
              /\ hist[r].latePolls = 0 =>
                    /\ hist[r].extracts = 0
                    /\ Len(hist[r].results) = 1
                    /\ resp[r].content = hist[r].delivered
        /\ (Len(hist[r].results) >= 1 /\ hist[r].results[1].kind # "Transport") =>
              /\ hist[r].status \in 200..299
              /\ Ended(r)
              /\ hist[r].extracts >= 1

\* a complete, valid document was accumulated and the next chunk could
\* not be read: the result is the Transport error, not the document
C18_Witness ==
    /\ "r1" \in Live
    /\ ChunkFailed("r1")
    /\ hist["r1"].latePolls = 0
    /\ hist["r1"].delivered # << >>
    /\ Extract(resp["r1"].extract, hist["r1"].delivered).kind = "Ok"
    /\ hist["r1"].results = <<ErrTransport("hyper::Error")>>
    /\ hist["r1"].extracts = 0

(***************************************************************************)
(* Two Responses in flight (SpecPair).                                     *)
(***************************************************************************)
\* the result of r as its own inputs alone determine it: the outcome of
\* its HTTP call, its status, and its own body up to its end or failure
Alone(r) ==
    IF CallFailed(r) THEN ErrTransport("hyper::Error")
    ELSE IF ~(hist[r].status \in 200..299)
    THEN ErrTransportStatus("Unexpected response status code: ", hist[r].status)
    ELSE IF ChunkFailed(r) THEN ErrTransport("hyper::Error")
    ELSE Extract(resp[r].extract, hist[r].delivered)

\* everything that belongs to the Response in slot r
Own(r) == <<resp[r], sent[r], wire[r], net[r], ctl[r], hist[r]>>

\* C19: with two Responses in flight and their polls interleaved in every
\* way, the accumulator of each holds chunks of its own body only (all of
\* them, in order, until its result), a step of one leaves the state,
\* accumulator and history of the other as they were, and each resolves to
\* the result that its own HTTP outcome and body determine.
C19_Independent ==
    /\ [](\A r \in Live :
             /\ \A i \in 1..Len(resp[r].content) :
                   \E j \in 1..Len(PairBody(r)) : resp[r].content[i] = PairBody(r)[j]
             /\ resp[r].content = IF Ended(r) THEN << >> ELSE hist[r].delivered
             /\ ctl[r] = "ready" => hist[r].results = <<Alone(r)>>
             /\ ctl[r] # "ready" => hist[r].results = << >>)
    /\ [][\A r, x \in Slots : (r # x /\ Own(r)' # Own(r)) => Own(x)' = Own(x)]_vars

\* both Responses are in the middle of their bodies at the same time
C19_Witness ==
    /\ Live = Slots
    /\ resp["r1"].state = "Reading" /\ resp["r1"].content = <<"S1">>
    /\ resp["r2"].state = "Reading" /\ resp["r2"].content = <<"[", "F2">>
    /\ hist["r1"].results = << >> /\ hist["r2"].results = << >>

(***************************************************************************)
(* Resolution of a Response (SpecLive).                                    *)
(***************************************************************************)
\* the owner of r holds a Pending answer of a poll
Suspended(r) == ctl[r] = "idle" /\ hist[r].polledIn # "none"

\* the second part of C20 as stated: a poll that returns Pending has
\* changed nothing but the accumulator, to which it has appended the chunks
\* delivered; the Response is in the state in which the poll found it
C20_Original ==
    \A r \in Live :
        Suspended(r) =>
            /\ resp[r].state = hist[r].polledIn
            /\ resp[r].content = hist[r].delivered

\* C20: a Response whose HTTP call resolves and whose body ends or fails
\* after finitely many chunks, and which is polled again after every
\* wake-up, eventually returns a result.  A poll that returns Pending has
\* appended the chunks delivered to the accumulator and has otherwise left
\* the Response as it found it, except that a poll that found it in Waiting
\* and saw a 2xx status leaves it in Reading.
C20_Amended ==
    /\ [](\A r \in Live :
             Suspended(r) =>
                /\ \/ resp[r].state = hist[r].polledIn
                   \/ /\ hist[r].polledIn = "Waiting"
                      /\ resp[r].state = "Reading"
                      /\ hist[r].status \in 200..299
                /\ resp[r].content = hist[r].delivered
                /\ hist[r].results = << >>)
    /\ ("r2" \in Live) ~> (ctl["r2"] = "ready" /\ Len(hist["r2"].results) = 1)

\* the Response was suspended in the middle of its body and has returned
\* its result at the end of the body, in a later poll
C20_Witness ==
    /\ "r2" \in Live
    /\ hist["r2"].suspended
    /\ hist["r2"].polledIn = "Reading"
    /\ Ended("r2")
    /\ ctl["r2"] = "ready"
    /\ Len(hist["r2"].results) = 1

(***************************************************************************)
(* Overflow of the id counter (SpecIds).                                   *)
(***************************************************************************)
\* C16: the prepare that finds the counter at the largest w-bit value
\* returns that value and leaves the counter at 0; the next prepare returns
\* 0 and the one after returns 1.  The counter is not put back to 1, and a
\* prepare is possible in the state where the counter is at its largest
\* value.
C16_WrapsToZero ==
    /\ \A k \in 1..Len(issued) :
          issued[k].id = Modulus - 1 =>
             /\ (k = Len(issued) => counter = 0)
             /\ (k + 1 <= Len(issued) => issued[k + 1].id = 0)
             /\ (k + 2 <= Len(issued) => issued[k + 2].id = 1)
    /\ wrapped <=> (\E k \in 1..Len(issued) : issued[k].id = Modulus - 1)
    /\ (counter = Modulus - 1 /\ Len(issued) < MaxPrepares)
          => ENABLED prepare("http", "eth_getAccounts")

\* the counter has gone around: the largest value, then 0, then 1 were returned
C16_Witness ==
    /\ Len(issued) = Modulus + 1
    /\ issued[Modulus - 1].id = Modulus - 1
    /\ issued[Modulus].id = 0
    /\ issued[Modulus + 1].id = 1
    /\ wrapped

=============================================================================
